---- MODULE Spec2Model ----
(***************************************************************************)
(* Health Navigator (src/app.py): a Streamlit application backed by a      *)
(* Firestore document store.  Every browser session runs the script in its *)
(* own thread against the shared store; the store is the only state the    *)
(* sessions share.  The model keeps one copy of st.session_state per       *)
(* session, the two Firestore collections, and the server's calendar day.  *)
(* The registered identities are two patients and two providers of the     *)
(* same clinic; each browser session is used by one patient and one        *)
(* provider.                                                               *)
(***************************************************************************)
EXTENDS Integers, Sequences, FiniteSets, TLC

\* ------------------------------------------------------------------ bounds
\* Largest number of documents the "appointments" collection holds.
MaxAppts == 2
\* Last calendar day of the run; the server clock starts at day 0.
MaxDay == 1
\* Largest number of places a geo-search returns.
MaxResults == 6

\* ------------------------------------------------------------- the universe
Sessions == {"s1", "s2"}
Patients == {"p1", "p2"}
Doctors == {"d1", "d2"}
Users == Patients \cup Doctors
\* The identities whose credentials are typed into each browser session.
SessionUsers(s) == IF s = "s1" THEN {"p1", "d1"} ELSE {"p2", "d2"}
Places == {"pl1", "pl2"}
Days == 0..MaxDay

\* Python's None: the string "None" where the value is a scalar; where it is a
\* dict or a list, None is Nil and a present value x is Some(x).
None == "None"
Nil == <<>>
Some(x) == <<x>>

\* user['email'] of the identity u (the identity provider returns it).
Email(u) == <<u, "@mail">>

\* The name the geo-search provider holds for a place id.
DetailName(pl) == <<"Dr", pl>>

\* The condition labels model.predict returns here.
Conditions == {"Fungal infection"}

\* The results gmaps.places may return for a find-doctor query typed into
\* session s: the patient of s1 searches near place pl1, the patient of s2
\* near place pl2.
SearchResults(s) == IF s = "s1" THEN {<<>>, <<"pl1">>} ELSE {<<>>, <<"pl2">>}

\* The order of relevance in which the geo-search provider ranks the places
\* of a town.
Ranking == <<"pl3", "pl1", "pl2", "pl5", "pl4", "pl7", "pl6", "pl8">>

\* places_result.get('results', []) for the searches of that town: the
\* ranking's first n places, for every n up to MaxResults.
RankedResults == {SubSeq(Ranking, 1, n) : n \in 0..MaxResults}

\* How a find-doctor query may go: the classifier raises, the search raises,
\* or the search returns one of the results.
QueryOutcomes(results) ==
  {[predictOk |-> FALSE, searchOk |-> FALSE, results |-> <<>>],
   [predictOk |-> TRUE, searchOk |-> FALSE, results |-> <<>>]}
  \cup {[predictOk |-> TRUE, searchOk |-> TRUE, results |-> res] : res \in results}

\* The symptoms selected and the location typed for a query.
QueryInputs ==
  {[user_symptoms |-> {}, user_location |-> "Lucknow"],
   [user_symptoms |-> {"itching"}, user_location |-> ""],
   [user_symptoms |-> {"itching"}, user_location |-> "Lucknow"]}

\* What gmaps.place gives for a candidate: a result with coordinates
\* ("located"), one without ("plain"), no result ("empty"), or an exception
\* ("raise").  "unset" is a candidate whose 'details' key was never assigned.
Lookups == {[pl \in Places |-> "located"]}

\* The lookups of the ranked places: every place is located, but for one
\* place whose lookup goes one of the four ways.
RankedLookups ==
  {[pl \in {Ranking[i] : i \in DOMAIN Ranking} |->
      IF pl = odd THEN outcome ELSE "located"] :
     odd \in {Ranking[1], Ranking[3], Ranking[6]},
     outcome \in {"located", "plain", "empty", "raise"}}

\* The condition labels the classifier answers with: labels of the specialty
\* table and labels it does not hold.
AllConditions ==
  {"Fungal infection", "Allergy", "GERD", "Acne", "Pneumonia", "Jaundice",
   "Migraine", "Hypertension ", "Heart attack", "Paralysis (brain hemorrhage)",
   "Chicken pox", "Malaria", "Dengue", "Typhoid",
   "Hypertension", "Diabetes ", "AIDS"}

\* The values typed into the "Your Full Name" field.
NameInputs == {"", "Asha"}

\* datetime.date for the day number d: the run starts on 2026-01-31, so the
\* days cross a month boundary.
DateOf(d) == IF d = 0 THEN [year |-> 2026, month |-> 1, day |-> 31]
             ELSE [year |-> 2026, month |-> 2, day |-> d]

Digit(n) == CASE n = 0 -> "0" [] n = 1 -> "1" [] n = 2 -> "2" [] n = 3 -> "3"
              [] n = 4 -> "4" [] n = 5 -> "5" [] n = 6 -> "6" [] n = 7 -> "7"
              [] n = 8 -> "8" [] n = 9 -> "9"

TwoDigits(n) == <<Digit(n \div 10), Digit(n % 10)>>

\* str(appt_date): the ISO form YYYY-MM-DD, as a sequence of characters.
StrDate(dt) == <<Digit(dt.year \div 1000), Digit((dt.year \div 100) % 10),
                 Digit((dt.year \div 10) % 10), Digit(dt.year % 10), "-">>
               \o TwoDigits(dt.month) \o <<"-">> \o TwoDigits(dt.day)

\* The value of a character of an ISO date in the character set's order.
CharRank(c) == CASE c = "-" -> 0 [] c = "0" -> 1 [] c = "1" -> 2 [] c = "2" -> 3
                 [] c = "3" -> 4 [] c = "4" -> 5 [] c = "5" -> 6 [] c = "6" -> 7
                 [] c = "7" -> 8 [] c = "8" -> 9 [] c = "9" -> 10

\* a <= b for two strings of the same length, compared character by character.
RECURSIVE StrLeq(_, _)
StrLeq(a, b) ==
  IF a = <<>> THEN TRUE
  ELSE IF Head(a) = Head(b) THEN StrLeq(Tail(a), Tail(b))
  ELSE CharRank(Head(a)) < CharRank(Head(b))

\* str(appt_time) of the one time of day the model offers.
StrTime == "09:00:00"

\* get_symptoms_list(): the symptom columns of Training.csv, in file order.
symptoms == <<"itching", "skin_rash", "chills", "cough">>

\* The options of the symptoms multiselect.
SymptomOptions == {symptoms[i] : i \in DOMAIN symptoms}

\* model_input after the loop over user_symptoms: every symptom of the
\* catalog is a key with value 0, and the reported symptoms that are keys
\* are set to 1.
model_input(user_symptoms) ==
  [symptom \in SymptomOptions |-> IF symptom \in user_symptoms THEN 1 ELSE 0]

\* The row with its columns in the reverse of the catalog's order.
ReversedColumns(user_symptoms) ==
  [i \in DOMAIN symptoms |->
     model_input(user_symptoms)[symptoms[Len(symptoms) + 1 - i]]]

\* pd.DataFrame([model_input]): one row whose columns are the keys of
\* model_input in insertion order, which is the order of the catalog.
input_df(user_symptoms) ==
  [i \in DOMAIN symptoms |-> model_input(user_symptoms)[symptoms[i]]]

\* What a session's last find-doctor run did, for a session that has run none.
NoQuery == [state |-> "none", user_symptoms |-> {}, input_df |-> Nil,
            answer |-> Nil, places_result |-> Nil, lookup |-> Nil]

VARIABLES
  store,            \* db.collection("appointments"): generated id -> document
  doctors,          \* db.collection("doctors"): identity id -> profile
  accounts,         \* the identity provider's accounts (their identity ids)
  signup,           \* history: what the last doctor signup did
  today,            \* the day datetime.date.today() returns
  user,             \* st.session_state.user (the identity id), per session
  user_role,        \* st.session_state.user_role
  doctor_profile,   \* st.session_state.doctor_profile
  booking_confirmation,  \* st.session_state.booking_confirmation
  prediction,       \* st.session_state.prediction
  specialist,       \* st.session_state.specialist
  doctors_list,     \* st.session_state.doctors_list
  map_data_list,    \* st.session_state.map_data_list
  query,            \* history: what the session's last find-doctor run did
  pc,               \* where the session's script run stands
  appointments,     \* the run's local list read from the store: id -> status
  appt_date,        \* the value st.date_input returned to the run
  writes,           \* history: per appointment id and session, updates applied
  accepted          \* history: per appointment id, an Accepted update was applied

vars == <<store, doctors, accounts, signup, today, user, user_role, doctor_profile,
          booking_confirmation, prediction, specialist, doctors_list,
          map_data_list, query, pc, appointments, appt_date, writes, accepted>>

\* The keys of st.session_state the find-doctor query owns.
queryVars == <<prediction, specialist, doctors_list, map_data_list>>

\* The keys of st.session_state set at login.
loginVars == <<user, user_role, doctor_profile>>

\* The profile written at doctor signup for a clinic resolved to place pl.
Profile(u, pl) == [email |-> Email(u), clinic_name |-> DetailName(pl),
                   address |-> <<"addr", pl>>, place_id |-> pl]

\* What the last doctor signup did, when there was none.
NoSignup == [identity |-> None, result |-> "none", deleted |-> FALSE]

Init ==
  /\ store = <<>>
  /\ doctors = [d \in Doctors |-> Profile(d, "pl1")]
  /\ accounts = Users
  /\ signup = NoSignup
  /\ today = 0
  /\ user = [s \in Sessions |-> None]
  /\ user_role = [s \in Sessions |-> None]
  /\ doctor_profile = [s \in Sessions |-> Nil]
  /\ booking_confirmation = [s \in Sessions |-> None]
  /\ prediction = [s \in Sessions |-> None]
  /\ specialist = [s \in Sessions |-> None]
  /\ doctors_list = [s \in Sessions |-> Some(<<>>)]
  /\ map_data_list = [s \in Sessions |-> Some(<<>>)]
  /\ query = [s \in Sessions |-> NoQuery]
  /\ pc = [s \in Sessions |-> "idle"]
  /\ appointments = [s \in Sessions |-> <<>>]
  /\ appt_date = [s \in Sessions |-> 0]
  /\ writes = <<>>
  /\ accepted = <<>>

\* ------------------------------------------------------------ role resolver
\* The test of profile.exists turned around.
RoleInverted(user_id) ==
  IF user_id \in DOMAIN doctors THEN "patient" ELSE "doctor"

\* check_user_role: the value it returns.
check_user_role(user_id) ==
  IF user_id \in DOMAIN doctors THEN "doctor" ELSE "patient"

\* A lookup that takes a profile of the collection whatever its id.
ProfileOfAnyDoctor(s, user_id) ==
  IF user_id \in DOMAIN doctors
    THEN Some(doctors[CHOOSE d \in DOMAIN doctors : TRUE])
    ELSE doctor_profile[s]

\* check_user_role: st.session_state.doctor_profile after the call in session s.
ProfileAfterCheck(s, user_id) ==
  IF user_id \in DOMAIN doctors THEN Some(doctors[user_id]) ELSE doctor_profile[s]

\* ------------------------------------------------------------------ queries
\* The query with its filter left out.
ListAllAppointments(place_id) == DOMAIN store

\* db.collection("appointments").where("doctor_place_id", "==", place_id)
ListForProvider(place_id) ==
  {r \in DOMAIN store : store[r].doctor_place_id = place_id}

\* The patient query with its filter left out.
ListEveryPatient(user_id) == DOMAIN store

\* db.collection("appointments").where("patient_id", "==", user_id)
ListForPatient(user_id) ==
  {r \in DOMAIN store : store[r].patient_id = user_id}

\* appt_data.get("status", "Pending") of each streamed document.
Snapshot(ids) == [r \in ids |-> store[r].status]

\* The slice bound of places_result.get('results', [])[:5].
MaxCandidates == 5

\* The slice left out.
Untruncated(results) == results

\* places_result.get('results', [])[:5]
Truncate(results) ==
  SubSeq(results, 1, IF Len(results) < MaxCandidates THEN Len(results)
                     ELSE MaxCandidates)

\* --------------------------------------------------------- login and logout
\* The "Login" button with the credentials of the account u.  The identity
\* is stored, then check_user_role reads its role and profile; when that
\* read raises, the except shows "Login failed" with the identity already
\* stored and the role as it was.  Otherwise st.rerun() follows.
Login(s, u, lookupOk) ==
  /\ pc[s] = "idle"
  /\ user[s] = None
  /\ u \in accounts
  /\ user' = [user EXCEPT ![s] = u]
  /\ user_role' = [user_role EXCEPT ![s] =
                     IF lookupOk THEN check_user_role(u) ELSE @]
  /\ doctor_profile' = [doctor_profile EXCEPT ![s] =
                          IF lookupOk THEN ProfileAfterCheck(s, u) ELSE @]
  /\ UNCHANGED <<store, doctors, accounts, signup, today, booking_confirmation,
                 queryVars, query, pc, appointments, appt_date, writes, accepted>>

\* A logout that forgets the identity and its role and leaves the other keys.
LogoutUserOnly(s) ==
  /\ pc[s] = "idle"
  /\ user[s] # None
  /\ user' = [user EXCEPT ![s] = None]
  /\ user_role' = [user_role EXCEPT ![s] = None]
  /\ UNCHANGED <<store, doctors, accounts, signup, today, doctor_profile,
                 booking_confirmation, queryVars, query, pc, appointments,
                 appt_date, writes, accepted>>

\* Every key of st.session_state is set to None.
Logout(s) ==
  /\ pc[s] = "idle"
  /\ user[s] # None
  /\ user' = [user EXCEPT ![s] = None]
  /\ user_role' = [user_role EXCEPT ![s] = None]
  /\ doctor_profile' = [doctor_profile EXCEPT ![s] = Nil]
  /\ booking_confirmation' = [booking_confirmation EXCEPT ![s] = None]
  /\ prediction' = [prediction EXCEPT ![s] = None]
  /\ specialist' = [specialist EXCEPT ![s] = None]
  /\ doctors_list' = [doctors_list EXCEPT ![s] = Nil]
  /\ map_data_list' = [map_data_list EXCEPT ![s] = Nil]
  /\ query' = [query EXCEPT ![s] = NoQuery]
  /\ UNCHANGED <<store, doctors, accounts, signup, today, pc, appointments, appt_date, writes,
                 accepted>>

\* ------------------------------------------------------------------ signup
\* "Create Patient Account" with all fields filled and matching passwords:
\* auth.create_user_with_email_and_password creates the account, or raises
\* (the email is in use, or the call fails) and the error is shown.
PatientSignup(s, u, createOk) ==
  /\ pc[s] = "idle"
  /\ user[s] = None
  /\ accounts' = IF createOk /\ u \notin accounts THEN accounts \cup {u}
                 ELSE accounts
  /\ UNCHANGED <<store, doctors, signup, today, loginVars,
                 booking_confirmation, queryVars, query, pc, appointments,
                 appt_date, writes, accepted>>

\* auth.delete_user_account(user['idToken']) of the account just created.
DeleteAccount(u) == accounts \ {u}

\* db.collection("doctors").document(user_id).set(profile_data)
SetProfile(u, profile_data) ==
  [d \in DOMAIN doctors \cup {u} |-> IF d = u THEN profile_data ELSE doctors[d]]

\* "Create Doctor Account".  With a field left empty the warning is shown.
\* Otherwise the account is created, the clinic is searched as clinic name
\* and location, and the profile is written under the new identity id.  A
\* search without results deletes the account and stops the run; an
\* exception of any call, the delete included, is shown as "Sign up failed"
\* and ends the handler where it stands.
DoctorSignup(s, u, filled, createOk, searchOk, results, deleteOk, setOk) ==
  /\ pc[s] = "idle"
  /\ user[s] = None
  /\ LET created == createOk /\ u \notin accounts
         result == CASE ~filled -> "warned"
                     [] filled /\ ~created -> "create_failed"
                     [] filled /\ created /\ ~searchOk -> "search_failed"
                     [] filled /\ created /\ searchOk /\ results = <<>> -> "not_found"
                     [] OTHER -> IF setOk THEN "created" ELSE "set_failed"
     IN /\ accounts' = CASE result \in {"warned", "create_failed"} -> accounts
                         [] result = "not_found" /\ deleteOk -> DeleteAccount(u)
                         [] OTHER -> accounts \cup {u}
        /\ doctors' = IF result = "created"
                        THEN SetProfile(u, Profile(u, Head(results)))
                        ELSE doctors
        /\ signup' = [identity |-> u, result |-> result,
                      deleted |-> result = "not_found" /\ deleteOk]
  /\ UNCHANGED <<store, today, loginVars, booking_confirmation, queryVars,
                 query, pc, appointments, appt_date, writes, accepted>>

\* --------------------------------------------------------------- the clock
Tick ==
  /\ today < MaxDay
  /\ today' = today + 1
  /\ UNCHANGED <<store, doctors, accounts, signup, loginVars, booking_confirmation, queryVars, query, pc,
                 appointments, appt_date, writes, accepted>>

\* ------------------------------------------------------- patient: find doctor
\* A patient run shows a pending booking confirmation once and clears it.
ConfirmationShown(s) ==
  booking_confirmation' = [booking_confirmation EXCEPT ![s] = None]

\* The specialty_map dict of the find-doctor handler.
specialty_table ==
  [condition \in {"Fungal infection", "Allergy", "GERD", "Acne", "Pneumonia",
                  "Jaundice", "Migraine", "Hypertension ", "Heart attack",
                  "Paralysis (brain hemorrhage)", "Chicken pox", "Malaria",
                  "Dengue", "Typhoid"} |->
     CASE condition \in {"Fungal infection", "Acne", "Chicken pox"} -> "Dermatologist"
       [] condition = "Allergy" -> "Allergist"
       [] condition \in {"GERD", "Jaundice"} -> "Gastroenterologist"
       [] condition = "Pneumonia" -> "Pulmonologist"
       [] condition \in {"Migraine", "Paralysis (brain hemorrhage)"} -> "Neurologist"
       [] condition \in {"Hypertension ", "Heart attack"} -> "Cardiologist"
       [] condition \in {"Malaria", "Dengue", "Typhoid"} -> "General Practitioner"]

\* The lookup without its default: specialty_map.get(prediction).
WithoutDefault(condition) ==
  IF condition \in DOMAIN specialty_table THEN specialty_table[condition]
  ELSE None

\* specialty_map.get(prediction, 'General Practitioner')
specialty_map(condition) ==
  IF condition \in DOMAIN specialty_table THEN specialty_table[condition]
  ELSE "General Practitioner"

\* The index of the first candidate whose detail lookup raises, or one past
\* the last candidate when none does.
FirstRaise(cands, lookup) ==
  LET bad == {i \in DOMAIN cands : lookup[cands[i]] = "raise"}
  IN IF bad = {} THEN Len(cands) + 1
     ELSE CHOOSE i \in bad : \A k \in bad : i <= k

\* The candidate list after the enrichment loop: the candidates before the
\* first raising lookup carry their details, the others none.
Enriched(cands, lookup) ==
  [i \in DOMAIN cands |->
     [place_id |-> cands[i],
      details |-> IF i < FirstRaise(cands, lookup) THEN lookup[cands[i]]
                  ELSE "unset"]]

\* details.get('name', 'N/A') of a candidate of the list.
NameOf(doctor) ==
  IF doctor.details \in {"plain", "located"} THEN DetailName(doctor.place_id)
  ELSE <<"N/A">>

\* temp_map_data: one entry for each candidate whose details hold a geometry.
RECURSIVE MapData(_)
MapData(list) ==
  IF list = <<>> THEN <<>>
  ELSE (IF Head(list).details = "located"
          THEN <<[name |-> NameOf(Head(list)), at |-> Head(list).place_id]>>
          ELSE <<>>) \o MapData(Tail(list))

\* The handler without the reset: the four keys keep their values.
KeepQueryKeys(s) ==
  [prediction |-> prediction[s], specialist |-> specialist[s],
   doctors_list |-> doctors_list[s], map_data_list |-> map_data_list[s]]

\* The reset of the four result keys at the start of an accepted query.
ResetQueryKeys(s) ==
  [prediction |-> None, specialist |-> None,
   doctors_list |-> Some(<<>>), map_data_list |-> Some(<<>>)]

\* A handler that takes a search without results for a failure.
StatusErrorWhenEmpty(predictOk, searchOk, cands, lookup) ==
  IF predictOk /\ searchOk /\ cands # <<>> /\ FirstRaise(cands, lookup) > Len(cands)
    THEN "complete" ELSE "error"

\* The state the st.status box of an accepted query ends in: "complete"
\* when the try block ran to its end, "error" when a call in it raised.
StatusState(predictOk, searchOk, cands, lookup) ==
  IF predictOk /\ searchOk /\ FirstRaise(cands, lookup) > Len(cands)
    THEN "complete" ELSE "error"

\* The check with the test of the symptoms left out.
RefusedForLocation(user_symptoms, user_location) == user_location = ""

\* `if not user_symptoms or not user_location`: the warning is shown.
Refused(user_symptoms, user_location) ==
  user_symptoms = {} \/ user_location = ""

\* The "Find a Doctor" button.  Without symptoms or a location the query is
\* refused.  Otherwise the four result keys are reset, then set one after the
\* other until a call raises: the classifier, the search, the detail lookups.
FindDoctor(s, user_symptoms, user_location, condition, predictOk, searchOk, results, lookup) ==
  /\ pc[s] = "idle"
  /\ user[s] # None
  /\ user_role[s] = "patient"
  /\ ConfirmationShown(s)
  /\ IF Refused(user_symptoms, user_location)
       THEN /\ UNCHANGED queryVars
            /\ query' = [query EXCEPT ![s] =
                           [NoQuery EXCEPT !.state = "refused",
                                           !.user_symptoms = user_symptoms]]
       ELSE LET cands == Truncate(results)
                done == FirstRaise(cands, lookup) > Len(cands)
                reset == ResetQueryKeys(s)
            IN /\ prediction' = [prediction EXCEPT ![s] =
                                   IF predictOk THEN condition ELSE reset.prediction]
               /\ specialist' = [specialist EXCEPT ![s] =
                                   IF predictOk THEN specialty_map(condition)
                                   ELSE reset.specialist]
               /\ doctors_list' = [doctors_list EXCEPT ![s] =
                                     IF predictOk /\ searchOk
                                       THEN Some(Enriched(cands, lookup))
                                       ELSE reset.doctors_list]
               /\ map_data_list' = [map_data_list EXCEPT ![s] =
                                      IF predictOk /\ searchOk /\ done
                                        THEN Some(MapData(Enriched(cands, lookup)))
                                        ELSE reset.map_data_list]
               /\ query' = [query EXCEPT ![s] =
                              [state |-> StatusState(predictOk, searchOk, cands, lookup),
                               user_symptoms |-> user_symptoms,
                               input_df |-> Some(input_df(user_symptoms)),
                               answer |-> IF predictOk THEN Some(condition) ELSE Nil,
                               places_result |-> IF predictOk /\ searchOk
                                                   THEN Some(results) ELSE Nil,
                               lookup |-> IF predictOk /\ searchOk /\ cands # <<>>
                                            THEN Some(lookup) ELSE Nil]]
  /\ UNCHANGED <<store, doctors, accounts, signup, today, loginVars, pc, appointments,
                 appt_date, writes, accepted>>

\* ------------------------------------------------------------ patient: book
\* The candidates a booking form is rendered for: none unless a prediction is
\* set and the candidate list is non-empty.
BookableCandidates(s) ==
  IF prediction[s] = None \/ doctors_list[s] = Nil THEN {}
  ELSE {doctors_list[s][1][i] : i \in DOMAIN doctors_list[s][1]}

\* The book_form widgets of a candidate are evaluated: st.date_input reads
\* datetime.date.today() for its min_value, so the date it returns is not
\* before the day of this evaluation.  The write follows later in the run.
FillBookForm(s, date) ==
  /\ pc[s] = "idle"
  /\ user[s] # None
  /\ user_role[s] = "patient"
  /\ BookableCandidates(s) # {}
  /\ date >= today
  /\ ConfirmationShown(s)
  /\ appt_date' = [appt_date EXCEPT ![s] = date]
  /\ pc' = [pc EXCEPT ![s] = "form"]
  /\ UNCHANGED <<store, doctors, accounts, signup, today, loginVars, queryVars, query, appointments,
                 writes, accepted>>

\* The name check left out.
NameUnchecked(name) == TRUE

\* `if not patient_name_input` fails: the name was typed in.
NameGiven(name) == name # ""

\* The document written with the status the provider would give it.
NewAppointmentAccepted(s, doctor, patient_name_input) ==
  [patient_email |-> Email(user[s]),
   patient_id |-> user[s],
   patient_name |-> patient_name_input,
   doctor_name |-> NameOf(doctor),
   doctor_place_id |-> doctor.place_id,
   appointment_date |-> StrDate(DateOf(appt_date[s])),
   appointment_time |-> StrTime,
   status |-> "Accepted"]

\* The document doc_ref.set writes.
NewAppointment(s, doctor, patient_name_input) ==
  [patient_email |-> Email(user[s]),
   patient_id |-> user[s],
   patient_name |-> patient_name_input,
   doctor_name |-> NameOf(doctor),
   doctor_place_id |-> doctor.place_id,
   appointment_date |-> StrDate(DateOf(appt_date[s])),
   appointment_time |-> StrTime,
   status |-> "Pending"]

\* A write that is absorbed into a stored document with the same fields.
AddUnlessDuplicate(doc) ==
  IF \E r \in DOMAIN store : store[r] = doc THEN store ELSE Append(store, doc)

\* db.collection("appointments").document() and doc_ref.set(...): the
\* document is stored under a generated id no stored document has.
AddDocument(doc) == Append(store, doc)

\* The success message set whether or not the write raised.
ConfirmationAlwaysSuccess(writeOk) == "success"

\* st.session_state.booking_confirmation: the success message at the end of
\* the try block, the error message in its except.
Confirmation(writeOk) == IF writeOk THEN "success" ELSE "error"

\* "Request Appointment" of the candidate doctor is handled.  With an empty
\* name the warning is shown and the run goes on.  Otherwise a document with
\* a fresh generated id is written, or the write raises; the confirmation
\* says which, and st.rerun() starts a new run.
SubmitBooking(s, doctor, patient_name_input, writeOk) ==
  /\ pc[s] = "form"
  /\ doctor \in BookableCandidates(s)
  /\ IF ~NameGiven(patient_name_input)
       THEN /\ UNCHANGED <<store, writes, accepted, booking_confirmation>>
            /\ pc' = [pc EXCEPT ![s] = "warned"]
       ELSE /\ IF writeOk
                 THEN /\ Len(store) < MaxAppts
                      /\ store' = AddDocument(NewAppointment(s, doctor,
                                                             patient_name_input))
                      /\ writes' = Append(writes, [t \in Sessions |-> 0])
                      /\ accepted' = Append(accepted, FALSE)
                 ELSE UNCHANGED <<store, writes, accepted>>
            /\ booking_confirmation' =
                 [booking_confirmation EXCEPT ![s] = Confirmation(writeOk)]
            /\ pc' = [pc EXCEPT ![s] = "idle"]
  /\ appt_date' = [appt_date EXCEPT ![s] = 0]
  /\ UNCHANGED <<doctors, accounts, signup, today, loginVars, queryVars, query, appointments>>

\* ------------------------------------------------- patient: my appointments
\* Tab 2 of a patient run: the list is read at the end of every run that no
\* st.rerun() cut short, the run that showed the name warning included.
MyAppointments(s) ==
  /\ pc[s] \in {"idle", "warned"}
  /\ user[s] # None
  /\ user_role[s] = "patient"
  /\ ConfirmationShown(s)
  /\ appointments' = [appointments EXCEPT ![s] = Snapshot(ListForPatient(user[s]))]
  /\ pc' = [pc EXCEPT ![s] = "mine"]
  /\ UNCHANGED <<store, doctors, accounts, signup, today, loginVars, queryVars, query, appt_date, writes,
                 accepted>>

\* ------------------------------------------------------- provider dashboard
\* The dashboard run up to the end of the query: the profile is reloaded when
\* the session holds none, and the appointments of its place id are read.  A
\* missing profile raises at profile['clinic_name'] and the run ends.
DashboardList(s) ==
  /\ pc[s] = "idle"
  /\ user[s] # None
  /\ user_role[s] = "doctor"
  /\ LET reload == doctor_profile[s] = Nil
         profile == IF reload THEN ProfileAfterCheck(s, user[s]) ELSE doctor_profile[s]
     IN /\ doctor_profile' = [doctor_profile EXCEPT ![s] = profile]
        /\ user_role' = [user_role EXCEPT ![s] =
                           IF reload THEN check_user_role(user[s]) ELSE @]
        /\ IF profile = Nil
             THEN UNCHANGED <<pc, appointments>>
             ELSE /\ appointments' = [appointments EXCEPT ![s] =
                                        Snapshot(ListForProvider(profile[1].place_id))]
                  /\ pc' = [pc EXCEPT ![s] = "dash"]
  /\ UNCHANGED <<store, doctors, accounts, signup, today, user, booking_confirmation, queryVars, query,
                 appt_date, writes, accepted>>

\* The buttons rendered whatever the status.
ShowsButtonsAlways(status) == TRUE

\* `if status == "Pending"`: the Accept and Decline buttons are rendered.
ShowsButtons(status) == status = "Pending"

\* A write that replaces the document instead of merging the field: the
\* patient's name is lost.
ReplaceDocument(doc, new_status) ==
  [doc EXCEPT !.status = new_status, !.patient_name = None]

\* .document(appt_id).update({"status": new_status})
UpdateStatus(doc, new_status) == [doc EXCEPT !.status = new_status]

\* The loop over the listed appointments with the Accept or the Decline button
\* of appointment r clicked: the update is issued on the status read earlier,
\* and st.rerun() ends the run.
DashboardAct(s, r, new_status) ==
  /\ pc[s] = "dash"
  /\ r \in DOMAIN appointments[s]
  /\ ShowsButtons(appointments[s][r])
  /\ store' = [store EXCEPT ![r] = UpdateStatus(store[r], new_status)]
  /\ writes' = [writes EXCEPT ![r][s] = @ + 1]
  /\ accepted' = [accepted EXCEPT ![r] = @ \/ new_status = "Accepted"]
  /\ pc' = [pc EXCEPT ![s] = "idle"]
  /\ appointments' = [appointments EXCEPT ![s] = <<>>]
  /\ UNCHANGED <<doctors, accounts, signup, today, loginVars, booking_confirmation, queryVars, query,
                 appt_date>>

\* A run that has nothing more to write ends after rendering.
EndRun(s) ==
  /\ pc[s] \in {"dash", "mine"}
  /\ pc' = [pc EXCEPT ![s] = "idle"]
  /\ appointments' = [appointments EXCEPT ![s] = <<>>]
  /\ UNCHANGED <<store, doctors, accounts, signup, today, loginVars, booking_confirmation,
                 queryVars, query, appt_date, writes, accepted>>

\* ---------------------------------------------------------- specifications
\* The sessions on one calendar day: every booking asks for the day's date,
\* and every find-doctor query is accepted and answered.
Next ==
  \/ \E s \in Sessions : \E u \in SessionUsers(s) : Login(s, u, TRUE)
  \/ \E s \in Sessions : Logout(s)
  \/ \E s \in Sessions, c \in Conditions, lk \in Lookups :
        \E res \in SearchResults(s) :
          FindDoctor(s, {"itching"}, "Lucknow", c, TRUE, TRUE, res, lk)
  \/ \E s \in Sessions : FillBookForm(s, today)
  \/ \E s \in Sessions, n \in NameInputs, wOk \in BOOLEAN :
        \E d \in BookableCandidates(s) : SubmitBooking(s, d, n, wOk)
  \/ \E s \in Sessions : MyAppointments(s)
  \/ \E s \in Sessions : DashboardList(s)
  \/ \E s \in Sessions, r \in 1..MaxAppts, st \in {"Accepted", "Declined"} :
        DashboardAct(s, r, st)
  \/ \E s \in Sessions : EndRun(s)

Spec == Init /\ [][Next]_vars

\* The same sessions over several days: the clock advances at any moment and
\* a booking asks for any date the date picker allows.
NextClock ==
  \/ Next
  \/ Tick
  \/ \E s \in Sessions, d \in Days : FillBookForm(s, d)

SpecClock == Init /\ [][NextClock]_vars

\* The find-doctor queries of the patients: any input in both sessions, and
\* in session s1 searches that return up to MaxResults ranked places and
\* calls that raise.
NextSearch ==
  \/ \E s \in Sessions : \E u \in SessionUsers(s) \cap Patients : Login(s, u, TRUE)
  \/ \E s \in Sessions : Logout(s)
  \/ \E s \in Sessions, q \in QueryInputs, lk \in Lookups :
        \E res \in SearchResults(s) :
          FindDoctor(s, q.user_symptoms, q.user_location, "Fungal infection",
                     TRUE, TRUE, res, lk)
  \/ \E lk \in RankedLookups, o \in QueryOutcomes(RankedResults) :
        FindDoctor("s1", {"itching"}, "Lucknow", "Fungal infection",
                   o.predictOk, o.searchOk, o.results, lk)

SpecSearch == Init /\ [][NextSearch]_vars

\* The classification of the patients' symptoms: any selection of the
\* multiselect, any answer of the classifier, and a search that finds nothing.
NextClassify ==
  \/ \E s \in Sessions : \E u \in SessionUsers(s) \cap Patients : Login(s, u, TRUE)
  \/ \E s \in Sessions : Logout(s)
  \/ \E s \in Sessions, user_symptoms \in SUBSET SymptomOptions, lk \in Lookups :
        FindDoctor(s, user_symptoms, "Lucknow", "Fungal infection", TRUE, TRUE,
                   <<>>, lk)
  \/ \E s \in Sessions, c \in AllConditions, lk \in Lookups :
        FindDoctor(s, {"itching"}, "Lucknow", c, TRUE, TRUE, <<>>, lk)

SpecClassify == Init /\ [][NextClassify]_vars

\* The store and the identity provider before the second clinic has signed
\* up: the patient p1 and the provider d1 are registered.
InitSignup ==
  /\ store = <<>>
  /\ doctors = [d \in {"d1"} |-> Profile(d, "pl1")]
  /\ accounts = {"p1", "d1"}
  /\ signup = NoSignup
  /\ today = 0
  /\ user = [s \in Sessions |-> None]
  /\ user_role = [s \in Sessions |-> None]
  /\ doctor_profile = [s \in Sessions |-> Nil]
  /\ booking_confirmation = [s \in Sessions |-> None]
  /\ prediction = [s \in Sessions |-> None]
  /\ specialist = [s \in Sessions |-> None]
  /\ doctors_list = [s \in Sessions |-> Some(<<>>)]
  /\ map_data_list = [s \in Sessions |-> Some(<<>>)]
  /\ query = [s \in Sessions |-> NoQuery]
  /\ pc = [s \in Sessions |-> "idle"]
  /\ appointments = [s \in Sessions |-> <<>>]
  /\ appt_date = [s \in Sessions |-> 0]
  /\ writes = <<>>
  /\ accepted = <<>>

\* The clinic searches of the doctor signup form: no result, one, or two.
ClinicResults == {<<>>, <<"pl1">>, <<"pl2", "pl1">>}

\* Signups, logins and logouts, with every call of the signup raising or not.
NextSignup ==
  \/ \E s \in Sessions : \E u \in SessionUsers(s) : Login(s, u, TRUE)
  \/ \E s \in Sessions : Logout(s)
  \/ \E s \in Sessions, createOk \in BOOLEAN :
        \E u \in SessionUsers(s) \cap Patients : PatientSignup(s, u, createOk)
  \/ \E s \in Sessions, filled, createOk, searchOk, deleteOk, setOk \in BOOLEAN,
        results \in ClinicResults :
        \E u \in SessionUsers(s) \cap Doctors :
          DoctorSignup(s, u, filled, createOk, searchOk, results, deleteOk, setOk)
  \/ \E s \in Sessions : DashboardList(s)
  \/ \E s \in Sessions : EndRun(s)

SpecSignup == InitSignup /\ [][NextSignup]_vars

\* The document of a request of the patient for the place pl, written on day
\* 0 for day 0.
Requested(patient, pl) ==
  [patient_email |-> Email(patient),
   patient_id |-> patient,
   patient_name |-> "Asha",
   doctor_name |-> DetailName(pl),
   doctor_place_id |-> pl,
   appointment_date |-> StrDate(DateOf(0)),
   appointment_time |-> StrTime,
   status |-> "Pending"]

\* The store after the provider d2 has signed up for the clinic at pl2 and
\* each clinic has got one request; nobody is logged in.
InitSession ==
  /\ store = <<Requested("p1", "pl1"), Requested("p2", "pl2")>>
  /\ doctors = [d \in Doctors |-> Profile(d, IF d = "d1" THEN "pl1" ELSE "pl2")]
  /\ accounts = Users
  /\ signup = [identity |-> "d2", result |-> "created", deleted |-> FALSE]
  /\ today = 0
  /\ user = [s \in Sessions |-> None]
  /\ user_role = [s \in Sessions |-> None]
  /\ doctor_profile = [s \in Sessions |-> Nil]
  /\ booking_confirmation = [s \in Sessions |-> None]
  /\ prediction = [s \in Sessions |-> None]
  /\ specialist = [s \in Sessions |-> None]
  /\ doctors_list = [s \in Sessions |-> Some(<<>>)]
  /\ map_data_list = [s \in Sessions |-> Some(<<>>)]
  /\ query = [s \in Sessions |-> NoQuery]
  /\ pc = [s \in Sessions |-> "idle"]
  /\ appointments = [s \in Sessions |-> <<>>]
  /\ appt_date = [s \in Sessions |-> 0]
  /\ writes = [r \in 1..2 |-> [t \in Sessions |-> 0]]
  /\ accepted = [r \in 1..2 |-> FALSE]

\* Every identity logs in and out of every session, with a role lookup that
\* returns or raises; the providers work on their dashboards and the
\* patients read their appointments and query.
NextSession ==
  \/ \E s \in Sessions, u \in Users, lookupOk \in BOOLEAN : Login(s, u, lookupOk)
  \/ \E s \in Sessions : Logout(s)
  \/ \E s \in Sessions, lk \in Lookups : \E res \in SearchResults(s) :
        FindDoctor(s, {"itching"}, "Lucknow", "Fungal infection", TRUE, TRUE, res, lk)
  \/ \E s \in Sessions : MyAppointments(s)
  \/ \E s \in Sessions : DashboardList(s)
  \/ \E s \in Sessions, r \in 1..2, st \in {"Accepted", "Declined"} :
        DashboardAct(s, r, st)
  \/ \E s \in Sessions : EndRun(s)

SpecSession == InitSession /\ [][NextSession]_vars

\* ------------------------------------------------------------------ history
\* The number of status updates applied to the appointment r.
RECURSIVE SumOver(_, _)
SumOver(f, S) ==
  IF S = {} THEN 0
  ELSE LET x == CHOOSE y \in S : TRUE IN f[x] + SumOver(f, S \ {x})

WritesTo(r) == SumOver(writes[r], Sessions)

Terminal == {"Accepted", "Declined"}

\* The documents a step adds to the collection.
Created == DOMAIN store' \ DOMAIN store

\* The session's last find-doctor run got results from the search.
Searched(s) == query[s].places_result # Nil

\* The session's last find-doctor run was accepted and its search raised.
SearchRaised(s) ==
  /\ query[s].state \in {"complete", "error"}
  /\ query[s].answer # Nil
  /\ query[s].places_result = Nil

\* The session's last find-doctor run looked up details, and the lookup of
\* a retained candidate raised.
LookupRaised(s) ==
  /\ query[s].lookup # Nil
  /\ \E i \in DOMAIN doctors_list[s][1] :
        query[s].lookup[1][doctors_list[s][1][i].place_id] = "raise"

\* ------------------------------------------------------------------- claims

\* C1: once the stored status of an appointment is Accepted or Declined, no
\* step changes it.
TerminalStatusImmutable ==
  [][\A r \in DOMAIN store :
       store[r].status \in Terminal => store'[r].status = store[r].status]_vars

\* C2: at most one status update is ever applied to an appointment, however
\* the provider sessions interleave their read and their update.
SingleWinner == \A r \in DOMAIN store : WritesTo(r) <= 1

\* C3: every status update is issued by a session whose logged-in identity
\* has a stored profile with the place id of the updated appointment; an
\* appointment of another place id is never updated by it.
OnlyOwnerTransitions ==
  [][\A r \in DOMAIN store : \A s \in Sessions :
       writes'[r][s] # writes[r][s] =>
         /\ user[s] \in DOMAIN doctors
         /\ doctors[user[s]].place_id = store[r].doctor_place_id]_vars

\* C3 witness: an appointment of place pl1 has been transitioned while an
\* appointment of another place, which no logged-in provider owns, is stored.
OwnerTransitioned ==
  \E r, q \in DOMAIN store :
    /\ store[r].doctor_place_id = "pl1" /\ WritesTo(r) = 1
    /\ store[q].doctor_place_id = "pl2" /\ WritesTo(q) = 0
    /\ \E s \in Sessions : pc[s] = "dash"

\* C4: an appointment to which no status update has been applied, so one
\* that is as create wrote it, has status Pending.
CreatedPending ==
  \A r \in DOMAIN store : WritesTo(r) = 0 => store[r].status = "Pending"

\* C4 witness: a created appointment that nobody has transitioned.
FreshAppointment ==
  /\ \E r \in DOMAIN store : WritesTo(r) = 0
  /\ \E r \in DOMAIN store : WritesTo(r) > 0

\* C5: one session applies at most one status update to an appointment: once
\* it has transitioned the appointment, its later runs read a terminal status
\* and write nothing.
OncePerSession ==
  \A r \in DOMAIN store : \A s \in Sessions : writes[r][s] <= 1

\* C5 witness: a session that transitioned an appointment has listed it again.
ListedAgainAfterTransition ==
  \E s \in Sessions : \E r \in DOMAIN store :
    /\ writes[r][s] = 1
    /\ pc[s] = "dash"
    /\ r \in DOMAIN appointments[s]
    /\ appointments[s][r] \in Terminal

\* C6: a step that applies a status update changes nothing but the status
\* field of the one appointment it targets.
TransitionFrame ==
  [][\A r \in DOMAIN store :
       writes'[r] # writes[r] =>
         /\ DOMAIN store' = DOMAIN store
         /\ [store'[r] EXCEPT !.status = store[r].status] = store[r]
         /\ \A q \in DOMAIN store \ {r} : store'[q] = store[q]]_vars

\* C6 witness: one of two stored appointments has been accepted.
AcceptedBesideAnother ==
  /\ Len(store) = 2
  /\ \E r \in DOMAIN store : store[r].status = "Accepted" /\ WritesTo(r) = 1

\* C7: the list a provider run holds has only appointments of the place id of
\* the logged-in identity's stored profile; the list a patient run holds has
\* only appointments of the logged-in identity.
ListingsFiltered ==
  \A s \in Sessions : \A r \in DOMAIN appointments[s] :
    /\ pc[s] = "dash" => /\ user[s] \in DOMAIN doctors
                         /\ store[r].doctor_place_id = doctors[user[s]].place_id
    /\ pc[s] = "mine" => store[r].patient_id = user[s]

\* C7 witness: a provider and a patient each hold a non-empty list that
\* leaves out a stored appointment.
ListingsLeaveOut ==
  /\ \E s \in Sessions : /\ pc[s] = "dash"
                         /\ DOMAIN appointments[s] \notin {{}, DOMAIN store}
  /\ \E s \in Sessions : /\ pc[s] = "mine"
                         /\ DOMAIN appointments[s] \notin {{}, DOMAIN store}

\* C8: a document is written with an appointment_date that is not before the
\* day of the write.
DateNotBeforeWriteDay ==
  [][\A r \in Created :
       StrLeq(StrDate(DateOf(today)), store'[r].appointment_date)]_vars

\* C9: a create with an empty patient name adds no document: the step that
\* shows the name warning leaves the collection unchanged, and no stored
\* appointment has an empty patient name.
EmptyNameWritesNothing ==
  [][/\ \A s \in Sessions : pc'[s] = "warned" /\ pc[s] = "form" => store' = store
     /\ \A r \in Created : store'[r].patient_name # ""]_vars

\* C9 witness: a create with an empty name has been refused.
EmptyNameRefused == \E s \in Sessions : pc[s] = "warned"

\* C10: a patient listing taken after an Accepted update was applied to one of
\* the patient's appointments shows that appointment as Accepted.
AcceptedStaysListed ==
  [][\A s \in Sessions :
       pc[s] # "mine" /\ pc'[s] = "mine" =>
         \A r \in DOMAIN appointments'[s] :
           accepted[r] => appointments'[s][r] = "Accepted"]_vars

\* C11: when the detail lookup of a candidate raises, the candidate list
\* still holds every retained candidate, each candidate whose own lookup did
\* not raise carries the details of its lookup, and the failing candidate
\* carries none.
DetailFailureIsolated ==
  \A s \in Sessions :
    LookupRaised(s) =>
      LET list == doctors_list[s][1]
          lookup == query[s].lookup[1]
      IN /\ Len(list) = Len(Truncate(query[s].places_result[1]))
         /\ \A i \in DOMAIN list :
              list[i].details = IF lookup[list[i].place_id] = "raise" THEN "unset"
                                ELSE lookup[list[i].place_id]

\* C12: when the geo-search call of an accepted query raises, the candidate
\* list is empty and the query's status box ends in state complete, not in
\* state error.
SearchFailureIsNormal ==
  \A s \in Sessions :
    SearchRaised(s) => /\ doctors_list[s] = Some(<<>>)
                       /\ query[s].state = "complete"

\* C13: the candidate list of a query whose search returned the sequence R
\* has length min(|R|, 5), and its i-th candidate is the i-th place of R.
TruncatedInOrder ==
  \A s \in Sessions :
    Searched(s) =>
      LET R == query[s].places_result[1]
          list == doctors_list[s][1]
      IN /\ Len(list) = (IF Len(R) < 5 THEN Len(R) ELSE 5)
         /\ \A i \in DOMAIN list : list[i].place_id = R[i]

\* C13 witness: a search returned more than five places, in an order that
\* is not the order of their identifiers, and the list holds five.
TruncatedLongResult ==
  \E s \in Sessions :
    /\ Searched(s)
    /\ Len(query[s].places_result[1]) > 5
    /\ Len(doctors_list[s][1]) = 5
    /\ doctors_list[s][1][1].place_id = "pl3"
    /\ doctors_list[s][1][2].place_id = "pl1"

\* C14: a query whose search returned no place has an empty candidate list
\* and no map data, its prediction and its specialty are set, and its status
\* box ends in state complete.
NoResultsIsNormal ==
  \A s \in Sessions :
    Searched(s) /\ query[s].places_result[1] = <<>> =>
      /\ doctors_list[s] = Some(<<>>)
      /\ map_data_list[s] = Some(<<>>)
      /\ prediction[s] = query[s].answer[1]
      /\ specialist[s] \notin {None, ""}
      /\ query[s].state = "complete"

\* C14 witness: a search of session s2 returned no place while session s1
\* holds the three candidates of its search.
NoResultsAfterResults ==
  /\ Searched("s2") /\ query["s2"].places_result[1] = <<>>
  /\ prediction["s2"] = "Fungal infection"
  /\ Searched("s1") /\ Len(doctors_list["s1"][1]) = 3

\* C15: after an accepted query, complete or failed part-way, the prediction
\* and the specialty are those of the query's classifier answer or None, every
\* candidate is a place of the query's search result with the details of the
\* query's lookup or none, and every map entry is a located candidate of the
\* list: nothing of an earlier query is left.
OnlyThisQuerysValues ==
  \A s \in Sessions :
    query[s].state \in {"complete", "error"} =>
      LET q == query[s]
          list == doctors_list[s][1]
          map == map_data_list[s][1]
      IN /\ prediction[s] = IF q.answer = Nil THEN None ELSE q.answer[1]
         /\ specialist[s] = IF q.answer = Nil THEN None
                            ELSE specialty_map(q.answer[1])
         /\ doctors_list[s] # Nil
         /\ map_data_list[s] # Nil
         /\ \A i \in DOMAIN list :
              /\ Searched(s)
              /\ i <= Len(q.places_result[1])
              /\ list[i].place_id = q.places_result[1][i]
              /\ list[i].details \in {"unset", q.lookup[1][list[i].place_id]}
         /\ \A j \in DOMAIN map :
              \E i \in DOMAIN list : /\ map[j].at = list[i].place_id
                                     /\ list[i].details = "located"

\* C15 witness: the query of session s1 failed at the detail lookup of its
\* third candidate: the list holds the candidates of this query, two of them
\* with details, and no map data, while session s2 holds its own results.
FailedPartWay ==
  /\ query["s2"].state = "complete" /\ doctors_list["s2"][1] # <<>>
  /\ query["s1"].state = "error"
  /\ LookupRaised("s1")
  /\ Len(doctors_list["s1"][1]) > 2
  /\ doctors_list["s1"][1][2].details = "located"
  /\ map_data_list["s1"] = Some(<<>>)

\* C16: after a doctor signup whose clinic search found no match, neither an
\* account nor a profile of the identity of that signup exists.
NotFoundLeavesNothing ==
  signup.result = "not_found" =>
    /\ signup.identity \notin accounts
    /\ signup.identity \notin DOMAIN doctors

\* The rollback where the delete call returned: after a doctor signup whose
\* clinic search found no match and whose account was deleted, neither an
\* account nor a profile of the identity of that signup exists.
NotFoundRolledBack ==
  signup.result = "not_found" /\ signup.deleted =>
    /\ signup.identity \notin accounts
    /\ signup.identity \notin DOMAIN doctors

\* C17: the role a login stores is doctor, with the stored profile in the
\* session, exactly when the "doctors" collection holds a profile under the
\* identity id, and patient with no profile in the session otherwise; the
\* login changes no stored document and no account; and for as long as the
\* identity stays logged in, a further call would return the stored role.
RoleFollowsProfile ==
  [][\A s \in Sessions :
       /\ user[s] = None /\ user'[s] # None =>
            /\ user'[s] \in DOMAIN doctors =>
                 /\ user_role'[s] = "doctor"
                 /\ doctor_profile'[s] = Some(doctors[user'[s]])
            /\ user'[s] \notin DOMAIN doctors =>
                 /\ user_role'[s] = "patient"
                 /\ doctor_profile'[s] = Nil
            /\ doctors' = doctors /\ store' = store /\ accounts' = accounts
       /\ user'[s] # None =>
            (user_role'[s] = "doctor" <=> user'[s] \in DOMAIN doctors')]_vars

\* C17 witness: d1, with a profile, is logged in as doctor, and d2, whose
\* account was created by a signup that wrote no profile, as patient.
BothRolesResolved ==
  /\ user["s1"] = "d1" /\ user_role["s1"] = "doctor"
  /\ doctor_profile["s1"] = Some(doctors["d1"])
  /\ user["s2"] = "d2" /\ user_role["s2"] = "patient"
  /\ doctor_profile["s2"] = Nil
  /\ "d2" \notin DOMAIN doctors

\* C18: the specialty of a query is the entry of the specialty table for the
\* classifier's answer when the table has one and "General Practitioner"
\* when it has none; it is set for every answer, and the answer itself is
\* kept as the prediction.
SpecialtyResolved ==
  \A s \in Sessions :
    query[s].answer # Nil =>
      LET condition == query[s].answer[1]
      IN /\ condition \in DOMAIN specialty_table =>
              specialist[s] = specialty_table[condition]
         /\ condition \notin DOMAIN specialty_table =>
              specialist[s] = "General Practitioner"
         /\ specialist[s] # None
         /\ prediction[s] = condition

\* C18 witness: one session holds the specialty of a label of the table,
\* the other the specialty of a label the table does not have.
BothKindsOfLabel ==
  /\ query["s1"].answer = Some("Hypertension ")
  /\ specialist["s1"] = "Cardiologist"
  /\ query["s2"].answer = Some("Hypertension")
  /\ specialist["s2"] = "General Practitioner"

\* C19: the row given to the classifier for a non-empty selection of catalog
\* symptoms has one column for each symptom of the catalog, in the catalog's
\* order, holding 1 where the symptom is selected and 0 elsewhere, so as many
\* ones as symptoms are selected.
VectorMarksReported ==
  \A s \in Sessions :
    query[s].input_df # Nil =>
      LET row == query[s].input_df[1]
          reported == query[s].user_symptoms
      IN /\ reported # {}
         /\ Len(row) = Len(symptoms)
         /\ \A i \in DOMAIN row :
              row[i] = IF symptoms[i] \in reported THEN 1 ELSE 0
         /\ Cardinality({i \in DOMAIN row : row[i] = 1}) = Cardinality(reported)

\* C19 witness: the rows of two selections that differ: the second and the
\* fourth symptom of the catalog in one session, the first alone in the other.
TwoRows ==
  /\ query["s1"].user_symptoms = {"skin_rash", "cough"}
  /\ query["s1"].input_df = Some(<<0, 1, 0, 1>>)
  /\ query["s2"].user_symptoms = {"itching"}
  /\ query["s2"].input_df = Some(<<1, 0, 0, 0>>)

\* C20: a find-doctor query submitted with no symptom is refused: the
\* classifier and the geo-search are not called, and the session's
\* prediction, specialty, candidate list and map data stay as they were.
EmptyReportRefused ==
  [][\A s \in Sessions :
       /\ query'[s] # query[s]
       /\ query'[s].state # "none"
       /\ query'[s].user_symptoms = {}
       => /\ query'[s].state = "refused"
          /\ query'[s].input_df = Nil
          /\ query'[s].answer = Nil
          /\ query'[s].places_result = Nil
          /\ prediction'[s] = prediction[s]
          /\ specialist'[s] = specialist[s]
          /\ doctors_list'[s] = doctors_list[s]
          /\ map_data_list'[s] = map_data_list[s]]_vars

\* C20 witness: a query with no symptom was refused in a session that holds
\* the prediction and the candidates of an earlier query.
RefusedKeepsResults ==
  \E s \in Sessions :
    /\ query[s].state = "refused"
    /\ query[s].user_symptoms = {}
    /\ prediction[s] = "Fungal infection"
    /\ doctors_list[s] # Nil /\ doctors_list[s][1] # <<>>
    /\ map_data_list[s] # Nil /\ map_data_list[s][1] # <<>>

\* C21: a successful create adds one document under a new id and leaves
\* every stored document as it was, also when a stored document has the same
\* patient, place id, date and time; the added document is Pending.
CreatesNeverMerged ==
  [][\A s \in Sessions :
       pc[s] = "form" /\ booking_confirmation'[s] = "success" =>
         /\ Len(store') = Len(store) + 1
         /\ \A r \in DOMAIN store : store'[r] = store[r]
         /\ store'[Len(store')].status = "Pending"]_vars

\* C21 witness: two stored documents with the same fields, both Pending.
TwinAppointments ==
  /\ Len(store) = 2
  /\ store[1] = store[2]
  /\ store[1].status = "Pending"

\* C22: after a doctor signup that created an account, whatever the outcome
\* of the calls that follow, the account of its identity exists only if a
\* profile is stored under the identity's id.
NoAccountWithoutProfile ==
  signup.result \in {"search_failed", "not_found", "set_failed", "created"} =>
    (signup.identity \in accounts => signup.identity \in DOMAIN doctors)

\* C23: a create whose write raised adds no document and leaves the error
\* message as the session's confirmation; a create whose write returned
\* leaves the success message and has added exactly one document.
ConfirmationTellsOutcome ==
  [][\A s \in Sessions :
       pc[s] = "form" /\ pc'[s] = "idle" =>
         /\ booking_confirmation'[s] \in {"success", "error"}
         /\ booking_confirmation'[s] = "error" => store' = store
         /\ booking_confirmation'[s] = "success" =>
              /\ Cardinality(Created) = 1
              /\ \A r \in DOMAIN store : store'[r] = store[r]]_vars

\* C23 witness: one session holds the error message of a failed create, the
\* other the success message of the create that wrote the one stored document.
BothConfirmations ==
  /\ Len(store) = 1
  /\ \E s, t \in Sessions : /\ booking_confirmation[s] = "error"
                            /\ booking_confirmation[t] = "success"
                            /\ store[1].patient_id = user[t]

\* C24: whenever a provider dashboard holds a list of appointments, and so
\* whenever it transitions one, the profile cached in the session is the
\* profile stored under the id of the identity now logged in, and the list
\* was read with that profile's place id.
DashboardUsesOwnProfile ==
  \A s \in Sessions :
    pc[s] = "dash" =>
      /\ user[s] \in DOMAIN doctors
      /\ doctor_profile[s] = Some(doctors[user[s]])
      /\ \A r \in DOMAIN appointments[s] :
           store[r].doctor_place_id = doctors[user[s]].place_id

\* C24 witness: both providers are on their dashboards, each with the
\* appointment of its own clinic, in the session in which the other provider
\* was logged in before and transitioned the appointment of the other clinic.
DashboardsAfterSwitch ==
  /\ pc["s1"] = "dash" /\ user["s1"] = "d2" /\ DOMAIN appointments["s1"] = {2}
  /\ pc["s2"] = "dash" /\ user["s2"] = "d1" /\ DOMAIN appointments["s2"] = {1}
  /\ writes[1]["s1"] = 1
  /\ writes[2]["s2"] = 1

\* C25: a session in which nobody is logged in, so every session right after
\* a logout and until the next login, holds no role, no profile, no
\* prediction, no specialty, no candidate, no map entry and no booking
\* confirmation.
LoggedOutHoldsNothing ==
  \A s \in Sessions :
    user[s] = None =>
      /\ user_role[s] = None
      /\ doctor_profile[s] = Nil
      /\ prediction[s] = None
      /\ specialist[s] = None
      /\ doctors_list[s] \in {Nil, Some(<<>>)}
      /\ map_data_list[s] \in {Nil, Some(<<>>)}
      /\ booking_confirmation[s] = None

\* C25 witness: the patient of session s1 has queried and booked there and
\* has logged out, and the session's provider is logged in after them.
LoggedOutAfterBooking ==
  /\ \E r \in DOMAIN store : store[r].patient_id = "p1"
  /\ user["s1"] = "d1"
  /\ doctors_list["s1"] = Nil
  /\ user["s2"] = None
  /\ doctors_list["s2"] = Nil

====
